---- MODULE Spec2Model ----
(***************************************************************************)
(* The A2A agent registry server (a2a_registry.py): an in-memory store of  *)
(* agent cards with a liveness record per url, the FastAPI request         *)
(* handlers over it, and the background coroutine cleanup_stale_agents     *)
(* that evicts agents whose last heartbeat is older than HEARTBEAT_TIMEOUT.*)
(*                                                                         *)
(* Everything runs on one asyncio event loop.  A coroutine keeps the loop  *)
(* from the moment it is resumed until it returns or reaches an await;     *)
(* `running` names the coroutine that holds the loop.  The handlers have   *)
(* no await; the sweeper's only await is asyncio.sleep at the end of a     *)
(* cycle.                                                                  *)
(*                                                                         *)
(* The agents (BasicAgent, SampleAgent) are separate processes; their      *)
(* setup(), which registers with the registry and verifies it, is modelled *)
(* with the registry's answers as inputs.                                  *)
(***************************************************************************)
EXTENDS Integers, Sequences, FiniteSets, Bags, TLC

\* ------------------------------------------------------- program constants

HEARTBEAT_TIMEOUT == 30

CLEANUP_INTERVAL == 10

\* BasicAgent.__init__ and SampleAgent.__init__: self._registration_retries
REGISTRATION_RETRIES == 3

\* BasicAgent.__init__ and SampleAgent.__init__: self._heartbeat_interval
HEARTBEAT_INTERVAL == 30

\* ------------------------------------------------------------------ bounds

\* The clock is followed for MaxTicks steps.
MaxTicks == 8

\* The speech listener is followed for MaxSegments recognition events.
MaxSegments == 3

\* The AssesorAgent's clock is followed for MaxClock hours.
MaxClock == 2

\* cleanup_old_results, line 321: max_age_seconds = max_age_hours * 3600.
SECONDS_PER_HOUR == 3600

\* One step of the clock, in seconds: every event happens at a multiple of
\* it.  Half the sweep interval, so that a heartbeat can fall between two
\* sweeps and an age can equal the timeout.
TickStep == CLEANUP_INTERVAL \div 2

MaxTime == MaxTicks * TickStep

\* Where a failed sweep cycle is followed to the end of the cycle after it,
\* the clock is followed for MaxRetryTicks steps.
MaxRetryTicks == 10

MaxRetryTime == MaxRetryTicks * TickStep

\* ------------------------------------------------------------------ inputs

Urls == {"http://a", "http://b"}

\* JSON values, in request and response bodies.
JsonString(s) == [type |-> "string", value |-> s]

JsonObject(fields) == [type |-> "object", value |-> fields]

JsonArray(items) == [type |-> "array", value |-> items]

\* AgentRegistration: the request body of POST /registry/register after
\* pydantic has filled in the defaults of capabilities and skills.
AgentRegistration(name, url) ==
    [name |-> name, description |-> "agent", url |-> url, version |-> "1.0.0",
     capabilities |-> "{}", skills |-> <<>>]

\* Two registrations of one url: one with the defaults, one with capabilities
\* and a skill of its own.
RegistrationPayloads ==
    {AgentRegistration("A", "http://a"),
     [AgentRegistration("A2", "http://a") EXCEPT !.capabilities = "{streaming: true}",
                                                 !.skills = <<"echo">>]}

\* The JSON body a client sends for a registration.
RequestBody(r) ==
    [name |-> JsonString(r.name), description |-> JsonString(r.description),
     url |-> JsonString(r.url), version |-> JsonString(r.version),
     capabilities |-> JsonObject(r.capabilities), skills |-> JsonArray(r.skills)]

Without(body, fields) == [f \in (DOMAIN body) \ fields |-> body[f]]

\* The bodies sent to POST /registry/register: complete ones for one url, one
\* for another url that leaves the optional fields out, two that lack a
\* required field, and one that has every required field and a string where
\* the list of skills belongs.
RegistrationBodies ==
    {RequestBody(r) : r \in RegistrationPayloads} \cup
    {Without(RequestBody(AgentRegistration("B", "http://b")), {"capabilities", "skills"}),
     Without(RequestBody(AgentRegistration("A", "http://a")), {"version"}),
     Without(RequestBody(AgentRegistration("A", "http://a")), {"url"}),
     [RequestBody(AgentRegistration("A", "http://a")) EXCEPT !.skills = JsonString("none")]}

\* Lines 22-27: the declared type of each field of AgentRegistration.
FieldTypes ==
    [name |-> "string", description |-> "string", url |-> "string",
     version |-> "string", capabilities |-> "object", skills |-> "array"]

\* Lines 22-25: the fields declared without a default.
RequiredFields == {"name", "description", "url", "version"}

\* A request model whose version has a default.
AgentRegistrationModel_version_optional(body) ==
    IF /\ RequiredFields \ {"version"} \subseteq DOMAIN body
       /\ \A f \in DOMAIN body : body[f].type = FieldTypes[f]
    THEN [ok |-> TRUE,
          value |-> [name |-> body.name.value,
                     description |-> body.description.value,
                     url |-> body.url.value,
                     version |-> IF "version" \in DOMAIN body
                                 THEN body.version.value ELSE "",
                     capabilities |-> IF "capabilities" \in DOMAIN body
                                      THEN body.capabilities.value ELSE "{}",
                     skills |-> IF "skills" \in DOMAIN body
                                THEN body.skills.value ELSE <<>>]]
    ELSE [ok |-> FALSE]

\* Lines 21-27, as FastAPI applies the model to a request body: the body
\* passes when every required field is present and every field it gives has
\* the declared type; capabilities and skills take their defaults when left
\* out.
AgentRegistrationModel(body) ==
    IF /\ RequiredFields \subseteq DOMAIN body
       /\ \A f \in DOMAIN body : body[f].type = FieldTypes[f]
    THEN [ok |-> TRUE,
          value |-> [name |-> body.name.value,
                     description |-> body.description.value,
                     url |-> body.url.value,
                     version |-> body.version.value,
                     capabilities |-> IF "capabilities" \in DOMAIN body
                                      THEN body.capabilities.value ELSE "{}",
                     skills |-> IF "skills" \in DOMAIN body
                                THEN body.skills.value ELSE <<>>]]
    ELSE [ok |-> FALSE]

\* A card built without the registration's skills.
AgentCard_no_skills(registration) ==
    [name |-> registration.name, description |-> registration.description,
     url |-> registration.url, version |-> registration.version,
     capabilities |-> registration.capabilities, skills |-> <<>>]

\* AgentCard(**registration.dict()): the card carries the registration's fields.
AgentCard(registration) ==
    [name |-> registration.name, description |-> registration.description,
     url |-> registration.url, version |-> registration.version,
     capabilities |-> registration.capabilities, skills |-> registration.skills]

\* ------------------------------------------------------------------- state

VARIABLES
    agents,      \* registry_server.agents: dict url -> AgentCard
    last_seen,   \* registry_server.last_seen: dict url -> time of last signal
    now,         \* time.time()
    phase,       \* lifespan of the app: "init", "serving", "stopped"
    sweeper,     \* the cleanup_stale_agents task: its position and locals
    hb,          \* the heartbeat handler in progress, if any
    running,     \* the coroutine that holds the event loop, or "none"
    out,         \* what the latest step produced: an HTTP response or log lines
    sent,        \* history: dict url -> when its last register/heartbeat request arrived
    chain,       \* history: per url, its run of liveness signals less than the
                 \* timeout apart: "none", "registered" or "heartbeating"
    registered,  \* history: urls registered and not since unregistered by the sweeper
    ever,        \* history: urls for which a registration was ever accepted
    posted,      \* history: per registered url, the request body of its latest
                 \* accepted registration
    prevCycle,   \* history: whether the sweeper has ended a cycle, when the last one
                 \* ended and whether it raised
    client,      \* an agent (BasicAgent, SampleAgent): its fields and its position
                 \* in setup()
    assessor,    \* an AssesorAgent: processing_results, processing_lock, its
                 \* clock and the position of each of its threads
    listener     \* the speech listener: the loop handle, the event loop's ready
                 \* callbacks, results_q and the position of main()

store == <<agents, last_seen>>

history == <<sent, chain, registered, ever, posted, prevCycle>>

\* The processes other than the registry.
agent_processes == <<client, assessor, listener>>

vars == <<agents, last_seen, now, phase, sweeper, hb, running, out,
          sent, chain, registered, ever, posted, prevCycle, client, assessor,
          listener>>

\* A Python dict assignment d[k] = v: inserts the key or overwrites its value.
DictSet(d, k, v) == [x \in (DOMAIN d) \cup {k} |-> IF x = k THEN v ELSE d[x]]

\* del d[k]
DictDel(d, k) == [x \in (DOMAIN d) \ {k} |-> d[x]]

EmptyDict == [x \in {} |-> 0]

\* --------------------------------------------- the store (AgentRegistry)

\* AgentRegistry.register_agent(card): insert or replace, last_seen = now.
StoreRegister(st, card, t) ==
    <<DictSet(st[1], card.url, card), DictSet(st[2], card.url, t)>>

\* AgentRegistry.unregister_agent(url): remove the entry if present, else no-op.
StoreUnregister(st, url) ==
    IF url \in DOMAIN st[1]
    THEN <<DictDel(st[1], url), DictDel(st[2], url)>>
    ELSE st

\* AgentRegistry.get_agent(url): the card, or None.
None == [py |-> "None"]

StoreGet(st, url) == IF url \in DOMAIN st[1] THEN st[1][url] ELSE None

\* AgentRegistry.get_all_agents(): the cards.
StoreGetAll(st) == {st[1][u] : u \in DOMAIN st[1]}

\* ------------------------------------------------------ FastAPI responses

NoOutput == [op |-> "none"]

\* A handler's return value.
PyDict(fields) == [py |-> "dict", value |-> fields]

PyTuple(items) == [py |-> "tuple", value |-> items]

PyList(items) == [py |-> "list", value |-> items]

\* What FastAPI sends for a handler's return value: the route's status code
\* and the value JSON-encoded.  A returned tuple is encoded as an array; it
\* does not set the status.  `before` records the store the handler found.
fastapi_response(op, url, status_code, ret) ==
    [op |-> op, url |-> url, status |-> status_code,
     body |-> IF ret.py = "dict" THEN JsonObject(ret.value)
              ELSE JsonArray(ret.value),
     before |-> store]

\* raise HTTPException(status_code, detail)
http_exception(op, url, status_code, detail) ==
    [op |-> op, url |-> url, status |-> status_code,
     body |-> JsonObject([detail |-> detail]),
     before |-> store]

\* ------------------------------------------------------------- lifespan

SweeperInit == [pc |-> "none", wakeAt |-> 0, current_time |-> 0,
                agents_to_remove |-> {}]

\* Threads of the AssesorAgent process: the server thread that runs
\* handle_message for a message, the executor thread that categorizes it, a
\* thread that polls results and one that cleans up.
Thread(kind, id) == [kind |-> kind, id |-> id]

NoThread == Thread("none", "")

\* The ids uuid4 gives to the messages handled.
MessageIds == {"id1", "id2"}

\* AssesorAgent.__init__, lines 104-106: no results, the lock free, no thread
\* started.
AssesorAgent ==
    [time |-> 0,
     processing_results |-> EmptyDict,
     processing_lock |-> NoThread,
     handler |-> [m \in MessageIds |-> "idle"],
     worker |-> [m \in MessageIds |-> [pc |-> "none", result |-> None]],
     poller |-> [pc |-> "idle", message_id |-> ""],
     cleaner |-> [pc |-> "idle", max_age_hours |-> 0, current_time |-> 0],
     returned |-> NoOutput]

\* listener.py after import, lines 27-31 and 57: results_q is empty, the loop
\* handle is None, the handlers are connected and main() has not run.
\* `events` is the history of the recognition events, `delivered` and
\* `outcomes` the history of main()'s loop.
Listener ==
    [loop |-> "None", ready |-> <<>>, results_q |-> <<>>,
     main |-> "new", text |-> 0, reply |-> "",
     events |-> <<>>, delivered |-> <<>>, outcomes |-> <<>>]

\* BasicAgent(name, description, url, registry_url), before setup() is called.
BasicAgent(registry_url) ==
    [registry_url |-> registry_url, pc |-> "new", attempt |-> 0,
     discovery_client |-> "None", enable_discovery_calls |-> <<>>,
     sleeps |-> 0, log |-> <<>>, returned |-> NoOutput,
     module |-> "basic_agent", llm_client |-> "None", init_llm_client_calls |-> 0]

\* The BasicAgent of src/src/agents/basic_agent.py, whose setup() goes on to
\* _init_llm_client() after the registration block.
AgentsBasicAgent(registry_url) ==
    [BasicAgent(registry_url) EXCEPT !.module = "agents.basic_agent"]

RegistryInit ==
    /\ agents = EmptyDict
    /\ last_seen = EmptyDict
    /\ now = 0
    /\ phase = "init"
    /\ sweeper = SweeperInit
    /\ hb = [pc |-> "idle", url |-> ""]
    /\ running = "none"
    /\ out = NoOutput
    /\ sent = EmptyDict
    /\ chain = [u \in Urls |-> "none"]
    /\ registered = {}
    /\ ever = {}
    /\ posted = EmptyDict
    /\ prevCycle = [known |-> FALSE, end |-> 0, error |-> FALSE,
                    removed |-> {}, left |-> EmptyDict]

\* The registry process, and no agent process.
Init ==
    /\ RegistryInit
    /\ client = BasicAgent("")
    /\ assessor = AssesorAgent
    /\ listener = Listener

\* lifespan, before the yield: asyncio.create_task(cleanup_stale_agents()).
\* The task is ready to run its first cycle at once.
Startup ==
    /\ phase = "init"
    /\ phase' = "serving"
    /\ sweeper' = [sweeper EXCEPT !.pc = "sleep", !.wakeAt = now]
    /\ out' = NoOutput
    /\ UNCHANGED <<store, now, hb, running, history, agent_processes>>

\* A lifespan that ends without cancelling the task.
SweeperAfterCancel_forgotten(task) == task

\* Line 49: cleanup_task.cancel().  The task is at its await (it has no other
\* point where it gives the loop away), and CancelledError, which is not an
\* Exception, leaves the while loop.
SweeperAfterCancel(task) == [task EXCEPT !.pc = "cancelled"]

\* lifespan, after the yield.  It runs on the event loop, so no coroutine is
\* in the middle of a step.
Shutdown ==
    /\ phase = "serving"
    /\ running = "none"
    /\ phase' = "stopped"
    /\ sweeper' = SweeperAfterCancel(sweeper)
    /\ out' = NoOutput
    /\ UNCHANGED <<store, now, hb, running, history, agent_processes>>

\* A request handler starts when the app is serving and the loop is free.
HandlerMayStart == phase = "serving" /\ running = "none"

\* ------------------------------------------------------------- handlers

\* A registration that keeps the card a url already has (first write wins).
register_agent_call_keep_first(agent_card) ==
    IF agent_card.url \in DOMAIN agents
    THEN <<agents, DictSet(last_seen, agent_card.url, now)>>
    ELSE StoreRegister(store, agent_card, now)

\* A registration that leaves the last_seen of a url that already has one.
register_agent_call_keep_clock(agent_card) ==
    IF agent_card.url \in DOMAIN last_seen
    THEN <<DictSet(agents, agent_card.url, agent_card), last_seen>>
    ELSE StoreRegister(store, agent_card, now)

\* Line 89: registry_server.register_agent(agent_card)
register_agent_call(agent_card) == StoreRegister(store, agent_card, now)

\* POST /registry/register
register_agent(registration) ==
    LET agent_card == AgentCard(registration)
        st == register_agent_call(agent_card)
    IN  /\ HandlerMayStart
        /\ agents' = st[1]
        /\ last_seen' = st[2]
        /\ out' = fastapi_response("register", agent_card.url, 201, PyDict(agent_card))
        /\ sent' = DictSet(sent, agent_card.url, now)
        /\ chain' = [chain EXCEPT ![agent_card.url] = "registered"]
        /\ registered' = registered \cup {agent_card.url}
        /\ ever' = ever \cup {agent_card.url}
        /\ UNCHANGED <<now, phase, sweeper, hb, running, prevCycle, agent_processes>>

\* FastAPI's answer to a body that does not pass the request model: 422, and
\* the handler is not called.
request_rejected ==
    /\ HandlerMayStart
    /\ out' = http_exception("register_rejected", "", 422, "validation error")
    /\ UNCHANGED <<store, now, phase, sweeper, hb, running, history, agent_processes>>

\* Lines 85-86: POST /registry/register with a body; the handler's parameter
\* is the body parsed as an AgentRegistration.
register_request(body) ==
    LET registration == AgentRegistrationModel(body)
    IN  IF registration.ok
        THEN /\ register_agent(registration.value)
             /\ posted' = DictSet(posted, registration.value.url, body)
        ELSE request_rejected

\* A listing that answers with no body when the registry is empty.
list_registered_agents_return_none_if_empty ==
    IF agents = EmptyDict THEN PyDict(None) ELSE PyList(StoreGetAll(store))

\* A listing that leaves out the agents whose heartbeat is overdue.
list_registered_agents_return_fresh ==
    PyList({agents[u] : u \in {v \in DOMAIN agents :
                                  now - last_seen[v] <= HEARTBEAT_TIMEOUT}})

\* Line 96: list(registry_server.get_all_agents())
list_registered_agents_return == PyList(StoreGetAll(store))

\* GET /registry/agents
list_registered_agents ==
    /\ HandlerMayStart
    /\ out' = fastapi_response("list", "", 200, list_registered_agents_return)
    /\ UNCHANGED <<store, now, phase, sweeper, hb, running, history, agent_processes>>

\* GET /health
health_check ==
    /\ HandlerMayStart
    /\ out' = fastapi_response("health", "", 200, PyDict([status |-> "healthy"]))
    /\ UNCHANGED <<store, now, phase, sweeper, hb, running, history, agent_processes>>

\* A handler that returns whatever the store gave, None included.
get_agent_response_null(url) ==
    fastapi_response("get", url, 200, PyDict(StoreGet(store, url)))

\* Lines 123-126: the card when the store has one, else HTTPException(404).
get_agent_response(url) ==
    LET agent == StoreGet(store, url)
    IN  IF agent # None
        THEN fastapi_response("get", url, 200, PyDict(agent))
        ELSE http_exception("get", url, 404, "not found")

\* GET /registry/agents/{url}
get_agent(url) ==
        /\ HandlerMayStart
        /\ out' = get_agent_response(url)
        /\ UNCHANGED <<store, now, phase, sweeper, hb, running, history, agent_processes>>

\* A handler that awaits between the membership test and the write gives the
\* loop away.
AfterMembershipCheck_await == "none"

\* POST /registry/heartbeat.  The handler has no await: after the membership
\* test (line 109) it still holds the loop when it writes last_seen (line 110).
AfterMembershipCheck == "heartbeat"

\* The handler's return value for an unregistered url (line 114): a tuple of
\* the body and 404.
heartbeat_not_registered ==
    PyTuple(<<[success |-> FALSE, error |-> "Agent not registered"], 404>>)

\* A heartbeat that refreshes the last_seen of every agent.
heartbeat_touch_all(seen, url, t) == [x \in DOMAIN seen |-> t]

\* A heartbeat that acknowledges without refreshing last_seen.
heartbeat_touch_skip(seen, url, t) == seen

\* Line 110: registry_server.last_seen[request.url] = time.time()
heartbeat_touch(seen, url, t) == DictSet(seen, url, t)

\* Lines 109 and 113-114: the membership test, and the answer when it fails.
\* Nothing in the try block raises, so the except branch (lines 115-117) is
\* never taken.
heartbeat(url) ==
    /\ HandlerMayStart
    /\ hb.pc = "idle"
    /\ sent' = DictSet(sent, url, now)
    /\ chain' = [chain EXCEPT ![url] =
                    IF chain[url] # "none" /\ now - sent[url] < HEARTBEAT_TIMEOUT
                    THEN "heartbeating" ELSE "none"]
    /\ IF url \in DOMAIN agents
       THEN /\ hb' = [pc |-> "write", url |-> url]
            /\ running' = AfterMembershipCheck
            /\ out' = NoOutput
       ELSE /\ out' = fastapi_response("heartbeat", url, 200, heartbeat_not_registered)
            /\ UNCHANGED <<hb, running>>
    /\ UNCHANGED <<store, now, phase, sweeper, registered, ever, posted, prevCycle, agent_processes>>

\* Lines 110-112: last_seen[url] = time.time(), return {"success": True}.
heartbeat_write ==
    /\ hb.pc = "write"
    /\ running \in {"heartbeat", "none"}
    /\ phase = "serving"
    /\ last_seen' = heartbeat_touch(last_seen, hb.url, now)
    /\ out' = fastapi_response("heartbeat", hb.url, 200, PyDict([success |-> TRUE]))
    /\ hb' = [pc |-> "idle", url |-> ""]
    /\ running' = "none"
    /\ UNCHANGED <<agents, now, phase, sweeper, history, agent_processes>>

\* ------------------------------------------- cleanup_stale_agents (sweeper)

\* A log line that does not name the url.
LogEvent_no_url(level, url) == [level |-> level, url |-> ""]

\* logging.warning / logging.info / logging.error of the sweeper: the level
\* and the url the message names.
LogEvent(level, url) == [level |-> level, url |-> url]

\* A comparison that also marks an agent whose age equals the timeout.
StaleUrls_at_timeout(seen, current_time) ==
    {u \in DOMAIN seen : current_time - seen[u] >= HEARTBEAT_TIMEOUT}

\* A comparison against the sweep interval instead of the timeout.
StaleUrls_interval(seen, current_time) ==
    {u \in DOMAIN seen : current_time - seen[u] > CLEANUP_INTERVAL}

\* Lines 67-69: the urls whose age exceeds the timeout.
StaleUrls(seen, current_time) ==
    {u \in DOMAIN seen : current_time - seen[u] > HEARTBEAT_TIMEOUT}

\* A sleep of the heartbeat timeout instead of the sweep interval.
SleepUntil_timeout(t) == t + HEARTBEAT_TIMEOUT

\* No sleep between cycles.
SleepUntil_no_wait(t) == t

\* asyncio.sleep(CLEANUP_INTERVAL), line 82: the task is resumed no earlier
\* than CLEANUP_INTERVAL after the sleep began.
SleepUntil(t) == t + CLEANUP_INTERVAL

\* Lines 61-64: the task is resumed, samples the clock and empties its list.
\* The task belongs to the event loop, not to the app: it is resumed whenever
\* its sleep is over, until it is cancelled.
sweep_begin ==
    /\ running = "none"
    /\ sweeper.pc = "sleep"
    /\ now >= sweeper.wakeAt
    /\ running' = "sweeper"
    /\ sweeper' = [sweeper EXCEPT !.pc = "scan", !.current_time = now,
                                  !.agents_to_remove = {}]
    /\ out' = [op |-> "sweep", finished |-> FALSE, error |-> FALSE,
               log |-> EmptyBag, before |-> store, after |-> prevCycle]
    /\ UNCHANGED <<store, now, phase, hb, history, agent_processes>>

\* Lines 67-72: mark every stale url and log a warning for it.
sweep_scan ==
    LET stale == StaleUrls(last_seen, sweeper.current_time)
    IN  /\ sweeper.pc = "scan"
        /\ running = "sweeper"
        /\ sweeper' = [sweeper EXCEPT !.pc = "remove", !.agents_to_remove = stale]
        /\ out' = [out EXCEPT !.log = @ (+) SetToBag({LogEvent("warning", u) : u \in stale})]
        /\ UNCHANGED <<store, now, phase, hb, running, history, agent_processes>>

\* An unregistration that deletes the last_seen entry and leaves the card.
unregister_call_keep_card(url) == <<agents, DictDel(last_seen, url)>>

\* An unregistration that deletes the card and leaves the last_seen entry.
unregister_call_keep_last_seen(url) == <<DictDel(agents, url), last_seen>>

\* An unregistration that also restarts the clocks of the agents it leaves.
unregister_call_touch_rest(url) ==
    <<DictDel(agents, url), [u \in (DOMAIN last_seen) \ {url} |-> now]>>

\* Line 76: registry_server.unregister_agent(url)
unregister_call(url) == StoreUnregister(store, url)

\* Lines 75-77: unregister one marked url and log it.
sweep_remove(url) ==
    LET st == unregister_call(url)
    IN  /\ sweeper.pc = "remove"
        /\ running = "sweeper"
        /\ url \in sweeper.agents_to_remove
        /\ agents' = st[1]
        /\ last_seen' = st[2]
        /\ sweeper' = [sweeper EXCEPT !.agents_to_remove = @ \ {url}]
        /\ out' = [out EXCEPT !.log = @ (+) SetToBag({LogEvent("info", url)})]
        /\ registered' = registered \ {url}
        /\ posted' = DictDel(posted, url)
        /\ UNCHANGED <<now, phase, hb, running, sent, chain, ever, prevCycle, agent_processes>>

\* Line 82: the cycle is over; await asyncio.sleep(CLEANUP_INTERVAL).
sweep_sleep ==
    /\ sweeper.pc = "remove"
    /\ running = "sweeper"
    /\ sweeper.agents_to_remove = {}
    /\ sweeper' = [sweeper EXCEPT !.pc = "sleep", !.wakeAt = SleepUntil(now)]
    /\ running' = "none"
    /\ out' = [out EXCEPT !.finished = TRUE]
    /\ prevCycle' = [known |-> TRUE, end |-> now, error |-> FALSE,
                     removed |-> (DOMAIN out.before[1]) \ DOMAIN agents,
                     left |-> EmptyDict]
    /\ UNCHANGED <<store, now, phase, hb, sent, chain, registered, ever, posted, agent_processes>>

\* An except clause around the while loop: the exception ends the task.
SweeperAfterRaise_exit(task, t) == [task EXCEPT !.pc = "done"]

\* Lines 79-82: the except clause is inside the while loop, so after an
\* exception the task goes on to the sleep of line 82.
SweeperAfterRaise(task, t) == [task EXCEPT !.pc = "sleep", !.wakeAt = SleepUntil(t)]

\* Lines 79-80: an exception raised inside the try block ends the cycle and
\* is logged.
sweep_raise ==
    /\ sweeper.pc \in {"scan", "remove"}
    /\ running = "sweeper"
    /\ sweeper' = SweeperAfterRaise(sweeper, now)
    /\ running' = "none"
    /\ out' = [out EXCEPT !.finished = TRUE, !.error = TRUE,
                          !.log = @ (+) SetToBag({LogEvent("error", "")})]
    /\ prevCycle' = [known |-> TRUE, end |-> now, error |-> TRUE,
                     removed |-> (DOMAIN out.before[1]) \ DOMAIN agents,
                     left |-> [u \in sweeper.agents_to_remove |-> last_seen[u]]]
    /\ UNCHANGED <<store, now, phase, hb, sent, chain, registered, ever, posted, agent_processes>>

\* The store's unregister operation on its own, called as line 76 calls it
\* but for any url, while no coroutine is in the middle of a step.
unregister_agent(url) ==
    LET st == unregister_call(url)
    IN  /\ HandlerMayStart
        /\ agents' = st[1]
        /\ last_seen' = st[2]
        /\ out' = [op |-> "unregister", url |-> url, before |-> store]
        /\ registered' = registered \ {url}
        /\ posted' = DictDel(posted, url)
        /\ UNCHANGED <<now, phase, sweeper, hb, running, sent, chain, ever, prevCycle, agent_processes>>

\* ------------------------------------------------------------------ clock

\* The clock advances while the loop is idle.  asyncio resumes the sweeper
\* when its sleep is over: the clock does not move past the wake-up time of a
\* sleeping sweeper.  Handlers may still run at that instant before the
\* sweeper does.
TickWithin(max_time) ==
    /\ phase = "serving"
    /\ running = "none"
    /\ sweeper.pc = "sleep" => now + TickStep <= sweeper.wakeAt
    /\ now + TickStep <= max_time
    /\ now' = now + TickStep
    /\ out' = NoOutput
    /\ UNCHANGED <<store, phase, sweeper, hb, running, history, agent_processes>>

Tick == TickWithin(MaxTime)

\* ------------------------------------------- the agent's setup() (client)

\* setup() of BasicAgent (src/src/basic_agent.py); SampleAgent.setup
\* (skeletons/a2a_skeleton_agent.py) is the same text.  The agent is its own
\* process: the registry it talks to is reached through enable_discovery and
\* requests.get, whose outcomes are inputs here.

registry_process == <<store, now, phase, sweeper, hb, running, out, history>>

RegistryUrls == {"", "http://localhost:8000", "http://registry:8000"}

\* What requests.get(registry_url + "/registry/agents") can give: an
\* exception, or a response with a status and, for 200, a list that has the
\* agent's url or not.
VerifyResponses ==
    {[raised |-> TRUE, status_code |-> 0, listed |-> FALSE],
     [raised |-> FALSE, status_code |-> 200, listed |-> TRUE],
     [raised |-> FALSE, status_code |-> 200, listed |-> FALSE],
     [raised |-> FALSE, status_code |-> 503, listed |-> FALSE]}

ClientLog(level, message) == [level |-> level, message |-> message]

\* A loop that makes one attempt more than _registration_retries.
LoopContinues_one_more(attempt) == attempt < REGISTRATION_RETRIES

\* Line 53: for attempt in range(self._registration_retries): there is a next
\* attempt when attempt + 1 is in the range.
LoopContinues(attempt) == attempt + 1 < REGISTRATION_RETRIES

\* What follows the `if self.registry_url:` block: the end of setup(), or in
\* agents/basic_agent.py the call of line 111.
AfterRegistrationBlock(c) ==
    IF c.module = "agents.basic_agent" THEN "init_llm_client" ELSE "done"

\* The end of one pass of the loop body: the next attempt, or, when the range
\* is used up, the error of lines 105-107 and the end of setup().
NextAttempt(c) ==
    IF LoopContinues(c.attempt)
    THEN [c EXCEPT !.pc = "enable_discovery", !.attempt = @ + 1]
    ELSE [c EXCEPT !.pc = AfterRegistrationBlock(c),
                   !.log = Append(@, ClientLog("error", "Failed to register agent"))]

\* No except clause: the exception leaves setup().
AfterExcept_propagate(c) == [c EXCEPT !.pc = "raised"]

\* Lines 98-103: the except clause logs the error and sleeps unless this was
\* the last attempt.
AfterExcept(c) ==
    LET logged == [c EXCEPT !.log = Append(@, ClientLog("error", "Error during registration attempt"))]
    IN  IF c.attempt < REGISTRATION_RETRIES - 1
        THEN [logged EXCEPT !.pc = "sleep"]
        ELSE NextAttempt(logged)

\* Lines 50-53: setup() is called; without a registry_url it does nothing.
setup ==
    /\ client.pc = "new"
    /\ client' = IF client.registry_url # ""
                 THEN [client EXCEPT !.pc = "enable_discovery"]
                 ELSE [client EXCEPT !.pc = AfterRegistrationBlock(client)]
    /\ UNCHANGED <<registry_process, assessor, listener>>

\* Lines 56-75: enable_discovery(self, registry_url, heartbeat_interval) is
\* called; when it returns, its client is kept and given the heartbeat
\* callback.
setup_enable_discovery(raised) ==
    LET called == [client EXCEPT !.enable_discovery_calls =
                       Append(@, [attempt |-> client.attempt,
                                  registry_url |-> client.registry_url,
                                  heartbeat_interval |-> HEARTBEAT_INTERVAL])]
    IN  /\ client.pc = "enable_discovery"
        /\ client' = IF raised
                     THEN AfterExcept(called)
                     ELSE [called EXCEPT !.pc = "verify",
                                         !.discovery_client = "DiscoveryClient"]
        /\ UNCHANGED <<registry_process, assessor, listener>>

\* Lines 78-97: the registration is verified against GET /registry/agents.
setup_verify(response) ==
    /\ client.pc = "verify"
    /\ client' =
          IF response.raised THEN AfterExcept(client)
          ELSE IF response.status_code = 200 /\ response.listed
          THEN [client EXCEPT !.pc = "done",
                              !.log = Append(@, ClientLog("info", "registered successfully"))]
          ELSE IF response.status_code = 200
          THEN [client EXCEPT !.pc = "sleep",
                              !.log = Append(@, ClientLog("warning", "Registration verification failed"))]
          ELSE [client EXCEPT !.pc = "sleep",
                              !.log = Append(@, ClientLog("warning", "Failed to verify registration"))]
    /\ UNCHANGED <<registry_process, assessor, listener>>

\* Lines 97 and 103: time.sleep(2), then the loop goes on.
setup_sleep ==
    /\ client.pc = "sleep"
    /\ client' = NextAttempt([client EXCEPT !.sleeps = @ + 1])
    /\ UNCHANGED <<registry_process, assessor, listener>>

\* agents/basic_agent.py, lines 111-132: _init_llm_client() makes the Azure
\* OpenAI client when the three environment variables are set and the
\* constructor does not raise; it catches what is raised.  setup() is then
\* over.
init_llm_client(credentials, raised) ==
    /\ client.pc = "init_llm_client"
    /\ client' = [client EXCEPT
          !.pc = "done",
          !.init_llm_client_calls = @ + 1,
          !.llm_client = IF credentials /\ ~raised THEN "AzureOpenAI" ELSE @]
    /\ UNCHANGED <<registry_process, assessor, listener>>

\* ------------------------------------- the agents' calls to the registry

\* from_network_get_agents (src/src/agents/basic_agent.py, lines 147-159, and
\* the skeleton agent, lines 161-177) and A2ANetwork.get_agents
\* (src/src/a2a_network.py, lines 13-28) have the same body.

\* What can go wrong between the agent and the registry.
NetworkFaults == {"none", "unreachable", "error status", "undecodable body"}

Raised(class) == [raised |-> class]

Returned(value) == [raised |-> "", value |-> value]

HttpResponse(status_code, text) ==
    [raised |-> "", status_code |-> status_code, text |-> text]

\* The body of a response as text: a JSON document, or text that is none.
JsonText(json) == [decodable |-> TRUE, json |-> json]

OtherText(text) == [decodable |-> FALSE, text |-> text]

\* requests.get(f"{self.registry_url}/registry/agents"): an address without
\* a scheme is refused before anything is sent; a registry that is not
\* serving or cannot be reached gives a connection error; otherwise the
\* answer is the registry's listing, unless something in between replaced it.
requests_get(registry_url, fault) ==
    IF registry_url = "" THEN Raised("MissingSchema")
    ELSE IF fault = "unreachable" \/ phase # "serving"
    THEN Raised("ConnectionError")
    ELSE IF fault = "error status"
    THEN HttpResponse(500, OtherText("Internal Server Error"))
    ELSE IF fault = "undecodable body"
    THEN HttpResponse(200, OtherText("<html>"))
    ELSE LET response == fastapi_response("list", "", 200,
                                          list_registered_agents_return)
         IN  HttpResponse(response.status, JsonText(response.body))

\* The classes an exception of the requests library is an instance of.
ExceptionClasses(class) ==
    CASE class = "MissingSchema" -> {"MissingSchema", "RequestException", "ValueError"}
      [] class = "ConnectionError" -> {"ConnectionError", "RequestException"}
      [] class = "HTTPError" -> {"HTTPError", "RequestException"}
      [] class = "JSONDecodeError" ->
            {"JSONDecodeError", "RequestException", "json.JSONDecodeError", "ValueError"}
      [] OTHER -> {class}

\* Handlers that catch connection errors only.
Caught_connection_only(class) == "ConnectionError" \in ExceptionClasses(class)

\* Lines 23 and 26: except requests.exceptions.RequestException, except
\* json.JSONDecodeError.
Caught(class) ==
    \/ "RequestException" \in ExceptionClasses(class)
    \/ "json.JSONDecodeError" \in ExceptionClasses(class)

\* Line 19: response.raise_for_status().
raise_for_status(response) ==
    IF response.status_code >= 400 THEN Raised("HTTPError") ELSE response

\* Line 20: response.json(): a JSON array is a list, a JSON object a dict.
response_json(response) ==
    IF ~response.text.decodable THEN Raised("JSONDecodeError")
    ELSE LET json == response.text.json
         IN  IF json.type = "array"
             THEN Returned(PyList({PyDict(item) : item \in json.value}))
             ELSE Returned(PyDict(json.value))

\* Line 21: [dict(data) for data in agents_data].
list_of_dicts(agents_data) ==
    IF agents_data.py = "list" /\ \A data \in agents_data.value : data.py = "dict"
    THEN Returned(PyList({PyDict(data.value) : data \in agents_data.value}))
    ELSE Raised("TypeError")

\* Lines 17-28: the try block stops at the first statement that raises; an
\* exception the handlers catch gives the empty list.
get_agents(registry_url, fault) ==
    LET response == requests_get(registry_url, fault)
        checked == IF response.raised # "" THEN response
                   ELSE raise_for_status(response)
        agents_data == IF checked.raised # "" THEN checked
                       ELSE response_json(checked)
        result == IF agents_data.raised # "" THEN agents_data
                  ELSE list_of_dicts(agents_data.value)
    IN  IF result.raised # "" /\ Caught(result.raised)
        THEN Returned(PyList({}))
        ELSE result

\* agent.from_network_get_agents()
from_network_get_agents(fault) ==
    /\ client' = [client EXCEPT !.returned =
          [op |-> "from_network_get_agents", fault |-> fault,
           result |-> get_agents(client.registry_url, fault)]]
    /\ UNCHANGED <<registry_process, assessor, listener>>

\* ---------------------------------------------------- routing by the LLM

JsonNumber(n) == [type |-> "number", value |-> n]

\* Confidences are counted in hundredths: 50 is 0.5.
FALLBACK_CONFIDENCE == 50

\* What self.llm_client.chat.completions.create gives: an exception, or a
\* reply whose content is the text of a JSON object with an agent_name and a
\* confidence, of one that lacks a field or has a confidence that is no
\* number, or no JSON at all.
LlmReplies ==
    {[raised |-> TRUE, content |-> OtherText("")],
     [raised |-> FALSE, content |-> OtherText("The best agent is A")],
     [raised |-> FALSE, content |->
        JsonText(JsonObject([agent_name |-> JsonString("A"), confidence |-> JsonNumber(90)]))],
     [raised |-> FALSE, content |->
        JsonText(JsonObject([agent_name |-> JsonString("Z"), confidence |-> JsonNumber(70)]))],
     [raised |-> FALSE, content |->
        JsonText(JsonObject([agent_name |-> JsonString("B"), confidence |-> JsonString("high")]))],
     [raised |-> FALSE, content |->
        JsonText(JsonObject([confidence |-> JsonNumber(90)]))]}

\* json.loads(choice)
json_loads(text) ==
    IF ~text.decodable THEN Raised("json.JSONDecodeError")
    ELSE IF text.json.type = "object" THEN Returned(PyDict(text.json.value))
    ELSE Returned(PyList(text.json.value))

\* data[key]
dict_item(data, key) ==
    IF data.py # "dict" THEN Raised("TypeError")
    ELSE IF key \notin DOMAIN data.value THEN Raised("KeyError")
    ELSE Returned(data.value[key])

\* float(value) of a decoded JSON value.
float(json) ==
    IF json.type = "number" THEN Returned(json.value) ELSE Raised("ValueError")

\* The orders in which a listing can give the agents of a set.
Orderings(set) ==
    {listing \in [1..Cardinality(set) -> set] :
        {listing[i] : i \in DOMAIN listing} = set}

\* agents/basic_agent.py, lines 210-218: the reply is decoded and its two
\* fields are read.
llm_decision(llm) ==
    IF llm.raised THEN Raised("APIError")
    ELSE LET data == json_loads(llm.content)
             agent_name == IF data.raised # "" THEN data
                           ELSE dict_item(data.value, "agent_name")
             confidence == IF data.raised # "" THEN data
                           ELSE dict_item(data.value, "confidence")
             number == IF confidence.raised # "" THEN confidence
                       ELSE float(confidence.value)
         IN  IF agent_name.raised # "" THEN agent_name
             ELSE IF number.raised # "" THEN number
             ELSE Returned(<<agent_name.value.value, number.value>>)

\* Lines 177 and 222: agents[0].get("name", "Unknown"), 0.5
first_agent_fallback(listing) ==
    LET first == listing[1].value
    IN  Returned(<<IF "name" \in DOMAIN first THEN first.name ELSE "Unknown",
                   FALLBACK_CONFIDENCE>>)

\* A routing that lets the exceptions of the LLM call through.
from_network_find_best_agent_return_no_except(llm_client, listing, llm) ==
    IF listing = <<>> THEN Raised("RuntimeError")
    ELSE IF llm_client = "None" THEN first_agent_fallback(listing)
    ELSE llm_decision(llm)

\* agents/basic_agent.py, lines 171-222, after from_network_get_agents has
\* returned `listing`.
from_network_find_best_agent_return(llm_client, listing, llm) ==
    IF listing = <<>> THEN Raised("RuntimeError")
    ELSE IF llm_client = "None" THEN first_agent_fallback(listing)
    ELSE LET decision == llm_decision(llm)
         IN  IF decision.raised # "" THEN first_agent_fallback(listing)
             ELSE decision

\* agent.from_network_find_best_agent(query)
from_network_find_best_agent(fault, llm) ==
    /\ client.module = "agents.basic_agent"
    /\ \E listing \in Orderings(get_agents(client.registry_url, fault).value.value) :
          client' = [client EXCEPT !.returned =
             [op |-> "from_network_find_best_agent", listing |-> listing,
              llm |-> llm,
              result |-> from_network_find_best_agent_return(
                             client.llm_client, listing, llm)]]
    /\ UNCHANGED <<registry_process, assessor, listener>>

\* A2ANetwork(registry_url), src/src/a2a_network.py lines 9-11: of an agent's
\* fields it has registry_url and llm_client, and it has no setup().
A2ANetwork(registry_url) ==
    [BasicAgent(registry_url) EXCEPT !.module = "a2a_network", !.pc = "none"]

PyStr(s) == [py |-> "str", value |-> s]

\* a2a_network.py, lines 85-88: next((a["url"] for a in agents if a["name"]
\* == agent_name), None).
first_url_named(listing, agent_name) ==
    LET named == {i \in DOMAIN listing : listing[i].value.name = agent_name}
    IN  IF named = {} THEN None
        ELSE PyStr(listing[CHOOSE i \in named : \A j \in named : i <= j].value.url)

\* a2a_network.py, lines 68-89: the try block.  The client is made first if
\* there is none; the reply is decoded and its agent_name looked up.
find_best_agent_try(llm_client, client_raises, listing, llm) ==
    IF llm_client = "None" /\ client_raises THEN Raised("OpenAIError")
    ELSE IF llm.raised THEN Raised("APIError")
    ELSE LET llm_assessment == json_loads(llm.content)
             agent_name == IF llm_assessment.raised # "" THEN llm_assessment
                           ELSE dict_item(llm_assessment.value, "agent_name")
         IN  IF agent_name.raised # "" THEN agent_name
             ELSE Returned(first_url_named(listing, agent_name.value.value))

\* A routing whose except clause answers None.
find_best_agent_return_none_on_error(llm_client, client_raises, listing, llm) ==
    IF listing = <<>> THEN Raised("RuntimeError")
    ELSE LET tried == find_best_agent_try(llm_client, client_raises, listing, llm)
         IN  IF tried.raised # "" THEN Returned(None) ELSE tried

\* a2a_network.py, lines 40-93, after get_agents has returned `listing`:
\* lines 44-51 read name, description and capabilities of every agent
\* outside the try block, and the except clause raises RuntimeError.
find_best_agent_return(llm_client, client_raises, listing, llm) ==
    IF listing = <<>> THEN Raised("RuntimeError")
    ELSE IF \E i \in DOMAIN listing :
              ~({"name", "description", "capabilities"} \subseteq DOMAIN listing[i].value)
    THEN Raised("KeyError")
    ELSE LET tried == find_best_agent_try(llm_client, client_raises, listing, llm)
         IN  IF tried.raised # "" THEN Raised("RuntimeError") ELSE tried

\* network.find_best_agent(query); lines 68-69 keep the client once made.
find_best_agent(fault, llm, client_raises) ==
    /\ client.module = "a2a_network"
    /\ \E listing \in Orderings(get_agents(client.registry_url, fault).value.value) :
          client' = [client EXCEPT
             !.llm_client = IF listing # <<>> /\ @ = "None" /\ ~client_raises
                            THEN "AzureOpenAI" ELSE @,
             !.returned =
                [op |-> "find_best_agent", listing |-> listing, llm |-> llm,
                 client_raises |-> client.llm_client = "None" /\ client_raises,
                 result |-> find_best_agent_return(client.llm_client, client_raises,
                                                   listing, llm)]]
    /\ UNCHANGED <<registry_process, assessor, listener>>

\* --------------------------------------------------- the speech listener

\* listener.py.  The recogniser calls on_recognized on a thread of the speech
\* SDK, one event at a time; main() and the tasks run on the event loop, which
\* runs the callbacks of its ready queue one at a time, first come first
\* served.  Segments are numbered in recognition order.  listener2.py has the
\* same handler and queue, and a main() that prints and sends nothing.

other_processes == <<registry_process, client, assessor>>

Callback(kind, segment) == [kind |-> kind, segment |-> segment]

\* A loop that runs the newest callback first.
call_soon_newest_first(ready, callback) == <<callback>> \o ready

\* loop.call_soon_threadsafe / call_soon: the callback goes to the end of the
\* ready queue.
call_soon(ready, callback) == Append(ready, callback)

Reasons == {"RecognizedSpeech", "NoMatch"}

\* Line 36: evt.result.reason == RecognizedSpeech and loop
Scheduled(event) == event.reason = "RecognizedSpeech" /\ event.loop # "None"

\* Lines 35-39: on_recognized(evt).  The handler is connected at line 57; the
\* recogniser is started by main() (line 71), and an event that came before
\* the handle is set would find loop None.
on_recognized(reason) ==
    LET segment == Len(listener.events) + 1
        event == [reason |-> reason, loop |-> listener.loop]
    IN  /\ segment <= MaxSegments
        /\ listener' = [listener EXCEPT
              !.events = Append(@, event),
              !.ready = IF Scheduled(event)
                        THEN call_soon(@, Callback("create_task", segment))
                        ELSE @]
        /\ UNCHANGED other_processes

\* Lines 68-76: main() takes the handle of the running loop, starts the
\* recogniser and waits on the empty queue.
main ==
    /\ listener.main = "new"
    /\ listener' = [listener EXCEPT !.loop = "loop", !.main = "get"]
    /\ UNCHANGED other_processes

\* Lines 76-85: results_q.get() returns the oldest text and main() hands the
\* send to the executor and waits for it.
TakeSegment(l) ==
    [l EXCEPT !.text = Head(l.results_q),
              !.results_q = Tail(l.results_q),
              !.delivered = Append(@, Head(l.results_q)),
              !.main = "send"]

\* The event loop runs the first callback of its ready queue: create_task
\* schedules the task's first step; the task's step is results_q.put(text),
\* which on the unbounded queue puts at once and wakes a waiting getter;
\* main() is resumed from get() (line 76), or from the executor's future
\* (lines 83-88), after which it goes round the loop and takes the next text
\* if there is one.
run_once ==
    /\ listener.ready # <<>>
    /\ LET callback == Head(listener.ready)
           rest == [listener EXCEPT !.ready = Tail(@)]
       IN  listener' =
             CASE callback.kind = "create_task" ->
                    [rest EXCEPT !.ready = call_soon(@, Callback("put", callback.segment))]
               [] callback.kind = "put" ->
                    IF listener.main = "get"
                    THEN [rest EXCEPT !.results_q = Append(@, callback.segment),
                                      !.main = "woken",
                                      !.ready = call_soon(@, Callback("main", 0))]
                    ELSE [rest EXCEPT !.results_q = Append(@, callback.segment)]
               [] callback.kind = "main" /\ listener.main = "woken" ->
                    TakeSegment(rest)
               [] OTHER ->
                    LET handled == [rest EXCEPT !.outcomes = Append(@, listener.reply),
                                                !.reply = "", !.text = 0]
                    IN  IF handled.results_q # <<>> THEN TakeSegment(handled)
                        ELSE [handled EXCEPT !.main = "get"]
    /\ UNCHANGED other_processes

SendOutcomes == {"response", "exception"}

\* Line 84: the executor's thread ends send_message, with a response or an
\* exception, and hands the result to the loop.
send_message(outcome) ==
    /\ listener.main = "send"
    /\ listener' = [listener EXCEPT
          !.main = "sent",
          !.reply = outcome,
          !.ready = call_soon(@, Callback("main", 0))]
    /\ UNCHANGED other_processes

\* ------------------------------------------------------ the AssesorAgent

\* The AssesorAgent (src/src/assessor_agent.py) is a process with several
\* threads.  A `with self.processing_lock:` block is entered in one step,
\* which takes the lock, and its body runs in the steps that follow.

\* An entry that does not wait for the lock.
MayAcquire_always(lock) == TRUE

\* with self.processing_lock: the block is entered when the lock is free.
MayAcquire(lock) == lock = NoThread

CategorizeResults ==
    {[assessment |-> "yes"], [assessment |-> "no"], [assessment |-> "error"]}

\* Lines 162-171: handle_message takes a fresh id and submits the
\* categorization to the executor.
handle_message(m) ==
    /\ assessor.handler[m] = "idle"
    /\ assessor' = [assessor EXCEPT !.handler[m] = "submitted",
                                     !.worker[m].pc = "queued"]
    /\ UNCHANGED <<registry_process, client, listener>>

\* Line 174.
handle_message_lock(m) ==
    /\ assessor.handler[m] = "submitted"
    /\ MayAcquire(assessor.processing_lock)
    /\ assessor' = [assessor EXCEPT !.handler[m] = "locked",
                                     !.processing_lock = Thread("handler", m)]
    /\ UNCHANGED <<registry_process, client, listener>>

\* Lines 175-191: the initial tracking entry is stored, the lock released and
\* the reply returned.
handle_message_store(m) ==
    /\ assessor.handler[m] = "locked"
    /\ assessor' = [assessor EXCEPT
          !.handler[m] = "returned",
          !.processing_results = DictSet(@, m, [processed |-> FALSE,
                                                timestamp |-> assessor.time,
                                                result |-> None]),
          !.processing_lock = NoThread]
    /\ UNCHANGED <<registry_process, client, listener>>

\* Lines 136-137: the executor thread runs categorize_message, which returns
\* the model's answer or an error result.
process_message_categorize(m, result) ==
    /\ assessor.worker[m].pc = "queued"
    /\ assessor' = [assessor EXCEPT !.worker[m] = [pc |-> "categorized",
                                                    result |-> result]]
    /\ UNCHANGED <<registry_process, client, listener>>

\* Line 139.
process_message_lock(m) ==
    /\ assessor.worker[m].pc = "categorized"
    /\ MayAcquire(assessor.processing_lock)
    /\ assessor' = [assessor EXCEPT !.worker[m].pc = "locked",
                                     !.processing_lock = Thread("worker", m)]
    /\ UNCHANGED <<registry_process, client, listener>>

\* Lines 140-148: the final entry is stored and the lock released.
process_message_store(m) ==
    /\ assessor.worker[m].pc = "locked"
    /\ assessor' = [assessor EXCEPT
          !.worker[m] = [pc |-> "finished", result |-> None],
          !.processing_results = DictSet(@, m, [processed |-> TRUE,
                                                timestamp |-> assessor.time,
                                                result |-> assessor.worker[m].result]),
          !.processing_lock = NoThread]
    /\ UNCHANGED <<registry_process, client, listener>>

\* A poll that answers "processing" for every id it finds.
get_categorization_result_return_unprocessed(processing_results, message_id) ==
    IF message_id \in DOMAIN processing_results
    THEN [assessment |-> "processing", message_id |-> message_id]
    ELSE [assessment |-> "not_found", message_id |-> message_id]

\* Lines 244-251.
get_categorization_result_return(processing_results, message_id) ==
    IF message_id \in DOMAIN processing_results
    THEN LET result == processing_results[message_id]
         IN  IF result.processed
             THEN result.result
             ELSE [assessment |-> "processing", message_id |-> message_id]
    ELSE [assessment |-> "not_found", message_id |-> message_id]

\* Line 243: get_categorization_result(message_id) enters its block.
get_categorization_result(message_id) ==
    /\ assessor.poller.pc = "idle"
    /\ MayAcquire(assessor.processing_lock)
    /\ assessor' = [assessor EXCEPT
          !.poller = [pc |-> "locked", message_id |-> message_id],
          !.processing_lock = Thread("poller", "")]
    /\ UNCHANGED <<registry_process, client, listener>>

\* Lines 244-251: the answer is read from the table and the lock released.
get_categorization_result_read ==
    /\ assessor.poller.pc = "locked"
    /\ assessor' = [assessor EXCEPT
          !.poller = AssesorAgent.poller,
          !.returned = [op |-> "get_categorization_result",
                        message_id |-> assessor.poller.message_id,
                        value |-> get_categorization_result_return(
                                      assessor.processing_results,
                                      assessor.poller.message_id)],
          !.processing_lock = NoThread]
    /\ UNCHANGED <<registry_process, client, listener>>

MaxAgeHours == {0, 1}

\* Lines 320-321: cleanup_old_results(max_age_hours) reads the clock before
\* it asks for the lock.
cleanup_old_results(max_age_hours) ==
    /\ assessor.cleaner.pc = "idle"
    /\ assessor' = [assessor EXCEPT
          !.cleaner = [pc |-> "started", max_age_hours |-> max_age_hours,
                       current_time |-> assessor.time]]
    /\ UNCHANGED <<registry_process, client, listener>>

\* Line 323.
cleanup_old_results_lock ==
    /\ assessor.cleaner.pc = "started"
    /\ MayAcquire(assessor.processing_lock)
    /\ assessor' = [assessor EXCEPT !.cleaner.pc = "locked",
                                     !.processing_lock = Thread("cleaner", "")]
    /\ UNCHANGED <<registry_process, client, listener>>

\* A scan that passes over the entries still being processed.
to_remove_processed_only(processing_results, current_time, max_age_seconds) ==
    {message_id \in DOMAIN processing_results :
        /\ processing_results[message_id].processed
        /\ current_time - processing_results[message_id].timestamp > max_age_seconds}

\* Lines 324-327.
to_remove(processing_results, current_time, max_age_seconds) ==
    {message_id \in DOMAIN processing_results :
        current_time - processing_results[message_id].timestamp > max_age_seconds}

\* Lines 329-330: del dict[key] for each key.
DictDelAll(dict, keys) == [k \in (DOMAIN dict) \ keys |-> dict[k]]

\* Lines 324-333: the old entries are collected and deleted, and the lock is
\* released.
cleanup_old_results_remove ==
    /\ assessor.cleaner.pc = "locked"
    /\ LET old == to_remove(assessor.processing_results,
                            assessor.cleaner.current_time,
                            assessor.cleaner.max_age_hours * SECONDS_PER_HOUR)
       IN  assessor' = [assessor EXCEPT
             !.cleaner = AssesorAgent.cleaner,
             !.processing_results = DictDelAll(@, old),
             !.returned = [op |-> "cleanup_old_results",
                           max_age_hours |-> assessor.cleaner.max_age_hours,
                           removed |-> old],
             !.processing_lock = NoThread]
    /\ UNCHANGED <<registry_process, client, listener>>

\* The AssesorAgent's clock (time.time()) advances.
assessor_tick ==
    /\ assessor.time < MaxClock * SECONDS_PER_HOUR
    /\ assessor' = [assessor EXCEPT !.time = @ + SECONDS_PER_HOUR]
    /\ UNCHANGED <<registry_process, client, listener>>

\* ---------------------------------------------------------- specifications

Handlers ==
    \/ \E body \in RegistrationBodies : register_request(body)
    \/ list_registered_agents
    \/ health_check
    \/ \E u \in Urls : get_agent(u)
    \/ \E u \in Urls : heartbeat(u)
    \/ heartbeat_write

Sweeper ==
    \/ sweep_begin
    \/ sweep_scan
    \/ \E u \in Urls : sweep_remove(u)
    \/ sweep_sleep

Next ==
    \/ Startup
    \/ Shutdown
    \/ Handlers
    \/ Sweeper
    \/ Tick

\* The registry as it runs: no statement of a sweep cycle raises, and the
\* sweeper is resumed when its sleep is over.
Spec == Init /\ [][Next]_vars

NextFault ==
    \/ Next
    \/ sweep_raise

\* The registry with a sweep cycle that may raise at any of its statements.
SpecFault == Init /\ [][NextFault]_vars

\* The registrations of two agents, one body each.
RetryBodies ==
    {RequestBody(AgentRegistration("A", "http://a")),
     Without(RequestBody(AgentRegistration("B", "http://b")), {"capabilities", "skills"})}

NextRetry ==
    \/ Startup
    \/ \E body \in RetryBodies : register_request(body)
    \/ \E u \in Urls : heartbeat(u)
    \/ heartbeat_write
    \/ Sweeper
    \/ sweep_raise
    \/ TickWithin(MaxRetryTime)

\* The registry with two agents that register and send heartbeats or stay
\* silent, and a sweep cycle that may raise at any of its statements,
\* followed for long enough to see the cycle after a failed removal.
SpecRetry == Init /\ [][NextRetry]_vars

NextStore ==
    \/ Next
    \/ \E u \in Urls : unregister_agent(u)

\* The registry with its store's unregister operation called from outside the
\* sweeper as well, for any url, registered or not.
SpecStore == Init /\ [][NextStore]_vars

InitClient ==
    /\ RegistryInit
    /\ client \in {BasicAgent(registry_url) : registry_url \in RegistryUrls}
    /\ assessor = AssesorAgent
    /\ listener = Listener

NextClient ==
    \/ setup
    \/ \E raised \in BOOLEAN : setup_enable_discovery(raised)
    \/ \E response \in VerifyResponses : setup_verify(response)
    \/ setup_sleep

\* One agent process from construction to the end of setup().
SpecClient == InitClient /\ [][NextClient]_vars

NextAssessor ==
    \/ \E m \in MessageIds : handle_message(m)
    \/ \E m \in MessageIds : handle_message_lock(m)
    \/ \E m \in MessageIds : handle_message_store(m)
    \/ \E m \in MessageIds, result \in CategorizeResults :
          process_message_categorize(m, result)
    \/ \E m \in MessageIds : process_message_lock(m)
    \/ \E m \in MessageIds : process_message_store(m)
    \/ \E m \in MessageIds : get_categorization_result(m)
    \/ get_categorization_result_read
    \/ \E max_age_hours \in MaxAgeHours : cleanup_old_results(max_age_hours)
    \/ cleanup_old_results_lock
    \/ cleanup_old_results_remove
    \/ assessor_tick

NextNetwork ==
    \/ Startup
    \/ Shutdown
    \/ \E body \in RegistrationBodies : register_request(body)
    \/ \E fault \in NetworkFaults : from_network_get_agents(fault)

\* An agent that asks the registry for its agents, before the registry
\* serves, while it serves and registers agents, and after it has shut down.
SpecNetwork == InitClient /\ [][NextNetwork]_vars

\* The registrations of three agents, two of them with the same name.
RoutingBodies ==
    {RequestBody(AgentRegistration("A", "http://a")),
     RequestBody(AgentRegistration("A", "http://b")),
     RequestBody(AgentRegistration("B", "http://b"))}

\* The objects that route: an agents/ BasicAgent with or without an LLM
\* client, and an A2ANetwork.
RoutingObjects ==
    {[AgentsBasicAgent(registry_url) EXCEPT !.llm_client = llm_client] :
        registry_url \in RegistryUrls, llm_client \in {"None", "AzureOpenAI"}}
    \cup {A2ANetwork(registry_url) : registry_url \in RegistryUrls}

InitRouting ==
    /\ RegistryInit
    /\ client \in RoutingObjects
    /\ assessor = AssesorAgent
    /\ listener = Listener

NextRouting ==
    \/ Startup
    \/ Shutdown
    \/ \E body \in RoutingBodies : register_request(body)
    \/ \E fault \in NetworkFaults, llm \in LlmReplies :
          from_network_find_best_agent(fault, llm)
    \/ \E fault \in NetworkFaults, llm \in LlmReplies, client_raises \in BOOLEAN :
          find_best_agent(fault, llm, client_raises)

\* An object that routes queries, and the registry it asks, before the
\* registry serves, while it serves and registers agents, and after it has
\* shut down.
SpecRouting == InitRouting /\ [][NextRouting]_vars

NextListener ==
    \/ \E reason \in Reasons : on_recognized(reason)
    \/ main
    \/ run_once
    \/ \E outcome \in SendOutcomes : send_message(outcome)

\* The speech listener with its recogniser, its event loop and its executor;
\* the loop runs its ready callbacks and a send comes to an end.
SpecListener ==
    /\ Init
    /\ [][NextListener]_vars
    /\ WF_vars(main)
    /\ WF_vars(run_once)
    /\ WF_vars(\E outcome \in SendOutcomes : send_message(outcome))

\* One AssesorAgent process: the threads that handle messages, the executor's
\* threads, a thread that polls results and one that cleans up, in every
\* interleaving.
SpecAssessor == Init /\ [][NextAssessor]_vars

InitClientAgents ==
    /\ RegistryInit
    /\ client \in {AgentsBasicAgent(registry_url) : registry_url \in RegistryUrls}
    /\ assessor = AssesorAgent
    /\ listener = Listener

NextClientAgents ==
    \/ NextClient
    \/ \E credentials \in BOOLEAN, raised \in BOOLEAN :
          init_llm_client(credentials, raised)

\* One agent process of agents/basic_agent.py from construction to the end
\* of setup().
SpecClientAgents == InitClientAgents /\ [][NextClientAgents]_vars

\* setup() with every call it makes returning or raising: enable_discovery,
\* requests.get and time.sleep do not block for ever.
SpecClientFair == SpecClient /\ WF_vars(NextClient)

\* ------------------------------------------------------------------ claims

ListedUrls(response) == {card.url : card \in response.body.value}

HeartbeatAccepted ==
    out.op = "heartbeat" /\ out.body.type = "object" /\ out.body.value.success

SweepFinished == out.op = "sweep" /\ out.finished

SweepFinishedOk == SweepFinished /\ ~out.error

CycleInProgress == sweeper.pc \in {"scan", "remove"}

\* The sweeper's sleep is over and it has not been resumed yet.
SweepDue == sweeper.pc = "sleep" /\ now >= sweeper.wakeAt

\* C1: the urls in a GET /registry/agents response are exactly the urls that
\* were registered and have not been unregistered by the sweeper since.
C1_ListReflectsRegistry ==
    out.op = "list" => ListedUrls(out) = registered

\* A listing with an agent in it, taken after another agent, once registered,
\* was evicted.
C1_Witness ==
    /\ out.op = "list"
    /\ ListedUrls(out) # {}
    /\ \E u \in Urls : chain[u] # "none" /\ u \notin registered

\* C2: a sweep cycle samples the clock once, and when it ends without an
\* error the store holds exactly the agents it held when the cycle began whose
\* age at the sampled time is at most HEARTBEAT_TIMEOUT.
C2_EvictionIsExactlyTheStaleSet ==
    SweepFinishedOk =>
        LET fresh == {u \in DOMAIN out.before[1] :
                        sweeper.current_time - out.before[2][u] <= HEARTBEAT_TIMEOUT}
        IN  /\ sweeper.current_time = now
            /\ DOMAIN agents = fresh
            /\ DOMAIN last_seen = fresh

\* A cycle that evicted one agent and kept one whose age equals the timeout.
C2_Witness ==
    /\ SweepFinishedOk
    /\ DOMAIN out.before[1] \ DOMAIN agents # {}
    /\ \E u \in DOMAIN agents : now - last_seen[u] = HEARTBEAT_TIMEOUT

\* C3: with sweep cycles CLEANUP_INTERVAL apart and none raising, a url whose
\* last register or heartbeat request is HEARTBEAT_TIMEOUT + CLEANUP_INTERVAL or
\* more in the past is not in the store once the sweep due at that time has
\* run: GET by url answers 404 and the listing leaves it out.
C3_SilentAgentIsGone ==
    (phase = "serving" /\ running = "none" /\ ~SweepDue) =>
        \A u \in Urls :
            (u \in DOMAIN sent /\ now - sent[u] >= HEARTBEAT_TIMEOUT + CLEANUP_INTERVAL) =>
                /\ u \notin DOMAIN agents
                /\ (out.op = "get" /\ out.url = u) => out.status = 404
                /\ out.op = "list" => u \notin ListedUrls(out)

\* GET by url answers 404 for an agent that registered and has been silent
\* for exactly HEARTBEAT_TIMEOUT + CLEANUP_INTERVAL.
C3_Witness ==
    /\ phase = "serving" /\ running = "none" /\ ~SweepDue
    /\ out.op = "get" /\ out.status = 404
    /\ chain[out.url] # "none"
    /\ now - sent[out.url] = HEARTBEAT_TIMEOUT + CLEANUP_INTERVAL

\* C4: an accepted heartbeat sets the url's last_seen to the current time (age
\* 0), a sweep cycle keeps every agent whose last signal is less than
\* HEARTBEAT_TIMEOUT before the cycle's sampled time, and evicts every agent
\* whose last signal is more than HEARTBEAT_TIMEOUT before it.
C4_HeartbeatRefresh ==
    /\ HeartbeatAccepted =>
          /\ out.url \in DOMAIN last_seen
          /\ now - last_seen[out.url] = 0
    /\ SweepFinishedOk =>
          \A u \in DOMAIN out.before[1] :
              /\ sweeper.current_time - sent[u] < HEARTBEAT_TIMEOUT => u \in DOMAIN agents
              /\ sweeper.current_time - sent[u] > HEARTBEAT_TIMEOUT => u \notin DOMAIN agents

\* A heartbeat accepted for an agent whose age had reached the timeout.
C4_Witness ==
    /\ HeartbeatAccepted
    /\ now - out.before[2][out.url] = HEARTBEAT_TIMEOUT

\* C5: an agent that registered and has since sent its signals less than
\* HEARTBEAT_TIMEOUT apart, the last one less than HEARTBEAT_TIMEOUT ago, is in
\* the store and in every listing.
C5_HeartbeatingAgentStays ==
    \A u \in Urls :
        (chain[u] # "none" /\ now - sent[u] < HEARTBEAT_TIMEOUT) =>
            /\ u \in DOMAIN agents
            /\ out.op = "list" => u \in ListedUrls(out)

\* A cycle that evicted an agent and kept a heartbeating one whose last
\* heartbeat was one clock step short of the timeout.
C5_Witness ==
    /\ SweepFinishedOk
    /\ DOMAIN out.before[1] \ DOMAIN agents # {}
    /\ \E u \in DOMAIN agents :
          /\ chain[u] = "heartbeating"
          /\ now - sent[u] = HEARTBEAT_TIMEOUT - TickStep

\* C6: a heartbeat for a url that is not registered is answered with an
\* object whose success is false, and leaves the store as it was.
C6_UnknownHeartbeatReportsFailure ==
    (out.op = "heartbeat" /\ out.url \notin DOMAIN out.before[1]) =>
        /\ out.body.type = "object"
        /\ out.body.value.success = FALSE
        /\ store = out.before

\* C6, the part that holds: a heartbeat for a url that is not registered
\* leaves the store as it was.
C6_UnknownHeartbeatKeepsStore ==
    (out.op = "heartbeat" /\ out.url \notin DOMAIN out.before[1]) =>
        store = out.before

\* C7: a registration is answered 201, also for a url that has a card; after
\* it GET by url returns the card just registered and the listing has exactly
\* one card for the url.
C7_LastWriteWins ==
    out.op = "register" =>
        /\ out.status = 201
        /\ get_agent_response(out.url).status = 200
        /\ get_agent_response(out.url).body = out.body
        /\ Cardinality({card \in list_registered_agents_return.value :
                            card.url = out.url}) = 1

\* A registration that replaced a different card of the same url.
C7_Witness ==
    /\ out.op = "register"
    /\ out.url \in DOMAIN out.before[1]
    /\ out.before[1][out.url] # out.body.value

\* C8: a coroutine in the middle of an operation holds the event loop: the
\* step after a heartbeat's membership test is its own last_seen write, on the
\* store the test saw, and every response is computed from a store in which
\* no sweep cycle is under way and every url has both its card and its
\* last_seen.
C8_StateAtomic ==
    /\ hb.pc = "write" => running = "heartbeat"
    /\ CycleInProgress => running = "sweeper"
    /\ out.op \in {"register", "list", "health", "get", "heartbeat"} =>
          /\ ~CycleInProgress
          /\ DOMAIN out.before[1] = DOMAIN out.before[2]
          /\ DOMAIN agents = DOMAIN last_seen

C8_StepAtomic ==
    hb.pc = "write" =>
        /\ hb'.pc = "idle"
        /\ out'.op = "heartbeat" /\ out'.url = hb.url
        /\ out'.before = store
        /\ hb.url \in DOMAIN agents

\* C8: the store operations are atomic with respect to each other and to a
\* sweep cycle: both parts above, in every state and at every step.
C8_Atomic == []C8_StateAtomic /\ [][C8_StepAtomic]_vars

\* A heartbeat between its membership test and its write, while the sweeper's
\* sleep is over.
C8_Witness ==
    /\ hb.pc = "write"
    /\ SweepDue
    /\ now - last_seen[hb.url] > HEARTBEAT_TIMEOUT

\* C9: a sweep cycle that raises logs one error and leaves the sweeper asleep
\* until CLEANUP_INTERVAL later, as a cycle that does not raise does; while
\* the app serves, the sweeper task is never over.
C9_SweeperSurvivesErrors ==
    /\ (out.op = "sweep" /\ out.error) =>
          /\ out.finished
          /\ running = "none"
          /\ sweeper.pc = "sleep"
          /\ sweeper.wakeAt = now + CLEANUP_INTERVAL
          /\ CopiesIn(LogEvent("error", ""), out.log) = 1
    /\ phase = "serving" => sweeper.pc \in {"sleep", "scan", "remove"}

\* A cycle that raised, begun after a cycle that raised.
C9_Witness ==
    /\ out.op = "sweep" /\ out.error
    /\ out.after.error
    /\ sweeper.pc = "sleep"

\* C10: while a sweep cycle is under way the sweeper holds the loop, and a
\* cycle begins only when the previous one has ended and at least
\* CLEANUP_INTERVAL has passed since.
C10_StateSingleFlight ==
    /\ CycleInProgress => running = "sweeper" /\ out.op = "sweep" /\ ~out.finished
    /\ (out.op = "sweep" /\ out.after.known) =>
          sweeper.current_time - out.after.end >= CLEANUP_INTERVAL

C10_StepSingleFlight ==
    (sweeper'.pc = "scan" /\ sweeper.pc # "scan") =>
        /\ sweeper.pc = "sleep"
        /\ running = "none"
        /\ prevCycle.known => now >= prevCycle.end + CLEANUP_INTERVAL

\* C10: sweep cycles are single-flight and at least CLEANUP_INTERVAL apart:
\* both parts above, in every state and at every step.
C10_SingleFlight == []C10_StateSingleFlight /\ [][C10_StepSingleFlight]_vars

\* A cycle under way that began exactly CLEANUP_INTERVAL after the previous
\* one ended.
C10_Witness ==
    /\ CycleInProgress
    /\ out.after.known
    /\ sweeper.current_time - out.after.end = CLEANUP_INTERVAL

\* C11: the sweeper task exists from startup and is cancelled at shutdown; the
\* cancellation reaches it only while it sleeps between two cycles and changes
\* nothing in the store, which has a card and a last_seen for the same urls;
\* after shutdown no step changes the store.
C11_StateCancel ==
    /\ phase = "init" => sweeper.pc = "none"
    /\ phase = "serving" => sweeper.pc \in {"sleep", "scan", "remove"}
    /\ phase = "stopped" =>
          /\ sweeper.pc = "cancelled"
          /\ running = "none"
          /\ DOMAIN agents = DOMAIN last_seen

C11_StepCancel ==
    /\ (sweeper'.pc = "cancelled" /\ sweeper.pc # "cancelled") =>
          /\ sweeper.pc = "sleep"
          /\ running = "none"
          /\ store' = store
    /\ phase = "stopped" => store' = store

\* C11: both parts above, in every state and at every step.
C11_CleanCancel == []C11_StateCancel /\ [][C11_StepCancel]_vars

\* The app has stopped with the sweeper cancelled when its sleep was over and
\* an agent in the store was stale: the cycle that would have evicted it
\* never begins.
C11_Witness ==
    /\ phase = "stopped"
    /\ sweeper.pc = "cancelled"
    /\ now >= sweeper.wakeAt
    /\ StaleUrls(last_seen, now) # {}

\* C12: GET by url answers 200 with the stored card when the url is
\* registered and 404 when it is not, and leaves the store as it was.
C12_GetReturnsCardOrNotFound ==
    out.op = "get" =>
        /\ out.url \in registered =>
              /\ out.status = 200
              /\ out.url \in DOMAIN out.before[1]
              /\ out.body = JsonObject(out.before[1][out.url])
        /\ out.url \notin registered => out.status = 404
        /\ store = out.before

\* GET by url answers 404 for a url that was registered and then evicted,
\* while another agent is in the store.
C12_Witness ==
    /\ out.op = "get" /\ out.status = 404
    /\ out.url \in ever
    /\ DOMAIN agents # {}

HasRequiredFields(body) == {"name", "description", "url", "version"} \subseteq DOMAIN body

HasDeclaredTypes(body) == \A f \in DOMAIN body : body[f].type = FieldTypes[f]

Accepted(response, url) ==
    /\ response.op = "register"
    /\ response.status = 201
    /\ response.url = url

\* C13 as stated: every registration request whose body has the required
\* fields is accepted, and sets the url's last_seen to the current time.
C13_RequiredFieldsSuffice ==
    [][\A body \in RegistrationBodies :
          (HasRequiredFields(body) /\ register_request(body)) =>
              /\ Accepted(out', body.url.value)
              /\ body.url.value \in DOMAIN last_seen'
              /\ last_seen'[body.url.value] = now]_vars

\* C13, amended: every registration request whose body has the required
\* fields and gives every field its declared type is accepted.
C13_StepRegister ==
    \A body \in RegistrationBodies :
        (HasRequiredFields(body) /\ HasDeclaredTypes(body) /\ register_request(body)) =>
            Accepted(out', body.url.value)

\* C13, amended: an accepted registration is answered 201 with the card, for
\* a new url and for a url already registered; after it the url has that card
\* and its last_seen is the current time, which is what an accepted heartbeat
\* leaves; the other urls keep their entries.
C13_StateRegister ==
    out.op = "register" =>
        /\ out.status = 201
        /\ out.url \in DOMAIN agents /\ JsonObject(agents[out.url]) = out.body
        /\ out.url \in DOMAIN last_seen /\ last_seen[out.url] = now
        /\ last_seen = heartbeat_touch(last_seen, out.url, now)
        /\ \A u \in DOMAIN out.before[1] \ {out.url} :
              /\ u \in DOMAIN agents /\ agents[u] = out.before[1][u]
              /\ last_seen[u] = out.before[2][u]
        /\ DOMAIN agents = DOMAIN out.before[1] \cup {out.url}

\* C13, amended: both parts above, at every step and in every state.
C13_RegisterSetsLastSeen == []C13_StateRegister /\ [][C13_StepRegister]_vars

\* A re-registration of an agent whose age had reached the timeout.
C13_Witness ==
    /\ out.op = "register"
    /\ out.url \in DOMAIN out.before[2]
    /\ now - out.before[2][out.url] = HEARTBEAT_TIMEOUT

\* C14: a heartbeat for a url that was never registered is answered with
\* status 404, and a heartbeat for a registered url with status 200 and
\* success true.
C14_NeverRegisteredHeartbeatIs404 ==
    out.op = "heartbeat" =>
        /\ out.url \notin ever => out.status = 404
        /\ out.url \in registered =>
              /\ out.status = 200
              /\ out.body.type = "object"
              /\ out.body.value.success = TRUE

\* C14, the part that holds: a heartbeat for a registered url is answered
\* with status 200 and success true.
C14_RegisteredHeartbeatIs200 ==
    (out.op = "heartbeat" /\ out.url \in registered) =>
        /\ out.status = 200
        /\ out.body = JsonObject([success |-> TRUE])

Evicted(url) == url \in ever /\ url \notin registered

\* C15: a heartbeat for the url of an evicted agent is answered with success
\* false and leaves the agent out of the store; after a registration the url
\* is in the listing, and a heartbeat for it is then answered with success
\* true and sets its last_seen to the current time.
C15_EvictedHeartbeatRefused ==
    /\ (out.op = "heartbeat" /\ Evicted(out.url)) =>
          /\ out.body.type = "object"
          /\ out.body.value.success = FALSE
          /\ out.url \notin DOMAIN agents
    /\ (out.op = "register" /\ out.status = 201) =>
          out.url \in {card.url : card \in list_registered_agents_return.value}
    /\ (out.op = "heartbeat" /\ out.url \in registered) =>
          /\ out.body = JsonObject([success |-> TRUE])
          /\ last_seen[out.url] = now

\* C15, the part that holds: a heartbeat for the url of an evicted agent
\* changes nothing in the store, and the agent stays out of it until a
\* registration for its url is accepted.
C15_EvictedStaysOut ==
    /\ (out.op = "heartbeat" /\ Evicted(out.url)) =>
          /\ store = out.before
          /\ out.url \notin DOMAIN agents
    /\ \A u \in Urls : Evicted(u) => u \notin DOMAIN agents
    /\ (out.op = "register" /\ out.status = 201) =>
          out.url \in {card.url : card \in list_registered_agents_return.value}
    /\ (out.op = "heartbeat" /\ out.url \in registered) =>
          /\ out.body = JsonObject([success |-> TRUE])
          /\ last_seen[out.url] = now

\* C16: a registration request whose body lacks a required field is answered
\* with a 4xx status by the request model, before the handler, and the store
\* is as it was.
C16_StateRejected ==
    out.op = "register_rejected" =>
        /\ out.status \in 400..499
        /\ store = out.before

C16_StepRejected ==
    \A body \in RegistrationBodies :
        (~HasRequiredFields(body) /\ register_request(body)) =>
            /\ out'.op = "register_rejected"
            /\ out'.status \in 400..499
            /\ store' = store

\* C16: both parts above, in every state and at every step.
C16_MissingFieldRejected == []C16_StateRejected /\ [][C16_StepRejected]_vars

\* A rejected registration request while an agent is in the store whose age
\* has reached the timeout.
C16_Witness ==
    /\ out.op = "register_rejected"
    /\ \E u \in DOMAIN last_seen : now - last_seen[u] = HEARTBEAT_TIMEOUT

\* C17: every enable_discovery call of an agent passes a heartbeat interval
\* below the registry's HEARTBEAT_TIMEOUT.
C17_IntervalBelowTimeout ==
    \A i \in DOMAIN client.enable_discovery_calls :
        client.enable_discovery_calls[i].heartbeat_interval < HEARTBEAT_TIMEOUT

\* C18 as stated: when setup() of an agent with a registry_url is over,
\* enable_discovery has been called exactly once.
C18_RegistersExactlyOnce ==
    (client.pc = "done" /\ client.registry_url # "") =>
        Len(client.enable_discovery_calls) = 1

Verified == client.log # <<>> /\ client.log[Len(client.log)].level = "info"

\* C18, amended: setup() calls enable_discovery once per attempt and in no
\* other place: never without a registry_url, and with one, once for each
\* attempt begun, the calls numbered as the attempts; when setup() is over
\* that is at least once and at most REGISTRATION_RETRIES times, and
\* REGISTRATION_RETRIES times unless a verification succeeded.
C18_RegistersOncePerAttempt ==
    LET calls == client.enable_discovery_calls
    IN  /\ client.registry_url = "" => calls = <<>>
        /\ \A i \in DOMAIN calls : calls[i].attempt = i - 1
        /\ client.pc \in {"verify", "sleep"} => Len(calls) = client.attempt + 1
        /\ client.pc = "enable_discovery" => Len(calls) = client.attempt
        /\ (client.pc = "done" /\ client.registry_url # "") =>
              /\ Len(calls) >= 1
              /\ Len(calls) <= REGISTRATION_RETRIES
              /\ Verified \/ Len(calls) = REGISTRATION_RETRIES
              /\ Verified => Len(calls) = client.attempt + 1

\* setup() is over with the registration verified on the second attempt,
\* after two enable_discovery calls.
C18_Witness ==
    /\ client.pc = "done"
    /\ Verified
    /\ Len(client.enable_discovery_calls) = 2

\* The urls a sweep cycle has removed so far.
EvictedByCycle == DOMAIN out.before[1] \ DOMAIN agents

LogLines(level, url) == CopiesIn([level |-> level, url |-> url], out.log)

\* C19 as stated: a sweep cycle that has ended logged one event for every
\* url it evicted and none for any other url.
C19_OneLogEventPerEviction ==
    SweepFinishedOk =>
        \A u \in Urls :
            LogLines("warning", u) + LogLines("info", u) =
                IF u \in EvictedByCycle THEN 1 ELSE 0

\* C19, amended: a sweep cycle logs two events for a url it evicts, a warning
\* when it marks the url and an info line when it has removed it, and no info
\* line for any other url; a url has the warning and is not evicted only
\* while the cycle is under way or when the cycle raised before removing it.
C19_TwoLogEventsPerEviction ==
    out.op = "sweep" =>
        \A u \in Urls :
            /\ LogLines("info", u) = IF u \in EvictedByCycle THEN 1 ELSE 0
            /\ LogLines("warning", u) <= 1
            /\ u \in EvictedByCycle => LogLines("warning", u) = 1
            /\ (LogLines("warning", u) = 1 /\ u \notin EvictedByCycle) =>
                  \/ CycleInProgress /\ u \in sweeper.agents_to_remove
                  \/ out.error
            /\ SweepFinishedOk =>
                  LogLines("warning", u) + LogLines("info", u) =
                      IF u \in EvictedByCycle THEN 2 ELSE 0

\* A cycle that ended having evicted one agent and kept another.
C19_Witness ==
    /\ SweepFinishedOk
    /\ EvictedByCycle # {}
    /\ DOMAIN agents # {}

\* C20: an accepted heartbeat leaves every card as it was, leaves the set of
\* registered urls as it was, and leaves the last_seen of every other url as
\* it was: only last_seen of its url changes, to the current time.
C20_HeartbeatFrame ==
    HeartbeatAccepted =>
        /\ agents = out.before[1]
        /\ DOMAIN last_seen = DOMAIN out.before[2]
        /\ \A u \in DOMAIN last_seen \ {out.url} : last_seen[u] = out.before[2][u]
        /\ last_seen[out.url] = now
        /\ out.url \in DOMAIN out.before[1]

\* An accepted heartbeat that moved its url's last_seen while another agent,
\* older, was in the store.
C20_Witness ==
    /\ HeartbeatAccepted
    /\ out.before[2][out.url] < now
    /\ \E u \in DOMAIN last_seen \ {out.url} : last_seen[u] < now

\* C21: unregistering a registered url removes its card and its last_seen and
\* leaves every other url's entries as they were; unregistering a url that is
\* not registered changes nothing; either way the operation returns.
C21_UnregisterRemovesOrNoOp ==
    out.op = "unregister" =>
        /\ out.url \notin DOMAIN agents
        /\ out.url \notin DOMAIN last_seen
        /\ DOMAIN agents = DOMAIN out.before[1] \ {out.url}
        /\ DOMAIN last_seen = DOMAIN out.before[2] \ {out.url}
        /\ \A u \in DOMAIN agents :
              agents[u] = out.before[1][u] /\ last_seen[u] = out.before[2][u]
        /\ out.url \notin DOMAIN out.before[1] => store = out.before

\* A url has been unregistered that was not registered, because it was
\* unregistered before, while another agent is in the store.
C21_Witness ==
    /\ out.op = "unregister"
    /\ out.url \notin DOMAIN out.before[1]
    /\ out.url \in ever
    /\ DOMAIN agents # {}

\* C22: GET /registry/agents is answered 200 with the cards of the store, and
\* GET /health is answered 200 with {status: healthy} whatever the store
\* holds, the empty store included; neither changes the store.
C22_ListAndHealthReadOnly ==
    /\ out.op = "list" =>
          /\ out.status = 200
          /\ out.body = JsonArray({out.before[1][u] : u \in DOMAIN out.before[1]})
          /\ store = out.before
    /\ out.op = "health" =>
          /\ out.status = 200
          /\ out.body = JsonObject([status |-> "healthy"])
          /\ store = out.before

\* A listing of the store after the sweeper has emptied it.
C22_Witness ==
    out.op = "list" /\ agents = EmptyDict /\ ever # {}

Returns(card, body) ==
    /\ card.name = body.name.value
    /\ card.description = body.description.value
    /\ card.url = body.url.value
    /\ card.version = body.version.value
    /\ "capabilities" \in DOMAIN body => card.capabilities = body.capabilities.value
    /\ "skills" \in DOMAIN body => card.skills = body.skills.value

C29_SameUrls == DOMAIN agents = DOMAIN last_seen

\* A sweep cycle that has removed one agent and has another still to remove.
C29_Witness ==
    /\ CycleInProgress
    /\ EvictedByCycle # {}
    /\ sweeper.agents_to_remove # {}

\* C30: the agents' heartbeat interval equals the registry's timeout, and a
\* sweep evicts an agent only when its latest register or heartbeat request
\* arrived more than that interval before the cycle's sampled time: an agent
\* whose requests arrive an interval apart, or less, is not evicted, and one
\* whose heartbeat is later than that can be.
C30_EvictedOnlyWhenLate ==
    /\ HEARTBEAT_INTERVAL = HEARTBEAT_TIMEOUT
    /\ out.op = "sweep" =>
          \A u \in EvictedByCycle :
              /\ u \in DOMAIN sent
              /\ sweeper.current_time - sent[u] > HEARTBEAT_INTERVAL

\* A sweep has evicted a heartbeating agent, one clock step after its next
\* heartbeat was due, and kept an agent whose last request arrived exactly
\* one interval before.
C30_Witness ==
    /\ SweepFinishedOk
    /\ \E u \in EvictedByCycle :
          /\ chain[u] = "heartbeating"
          /\ now - sent[u] = HEARTBEAT_INTERVAL + TickStep
    /\ \E u \in DOMAIN agents : now - sent[u] = HEARTBEAT_INTERVAL

\* C24: once the background categorization of a message has finished, a poll
\* for its id does not answer "processing": it answers the final result
\* (assessment yes, no or error) for as long as the entry is kept.
C24_FinishedNeverProcessing ==
    \A m \in MessageIds :
        assessor.worker[m].pc = "finished" =>
            get_categorization_result_return(assessor.processing_results, m)
                .assessment # "processing"

\* The poll's answer as the claim gives it, from the table the poll reads.
PollAnswerCases(table, id, value) ==
    /\ value.assessment = "not_found" <=> id \notin DOMAIN table
    /\ value.assessment = "processing" <=>
          (id \in DOMAIN table /\ ~table[id].processed)
    /\ (id \in DOMAIN table /\ table[id].processed) => value = table[id].result
    /\ value.assessment \in {"yes", "no", "error"} <=>
          (id \in DOMAIN table /\ table[id].processed)

\* C25: get_categorization_result(id) answers not_found exactly when id has
\* no entry, processing exactly when the entry has processed = false and the
\* stored result exactly when it has processed = true, and neither of its
\* steps changes processing_results.
C25_PollAnswer ==
    [][/\ get_categorization_result_read =>
            /\ PollAnswerCases(assessor.processing_results,
                               assessor.poller.message_id,
                               assessor'.returned.value)
            /\ assessor'.processing_results = assessor.processing_results
       /\ (\E m \in MessageIds : get_categorization_result(m)) =>
            assessor'.processing_results = assessor.processing_results]_vars

C25_Witness ==
    /\ assessor.returned.op = "get_categorization_result"
    /\ assessor.returned.value.assessment = "processing"
    /\ assessor.poller.pc = "idle"
    /\ \E m \in MessageIds :
          /\ m \in DOMAIN assessor.processing_results
          /\ assessor.processing_results[m].processed
          /\ m # assessor.returned.message_id

\* C26: cleanup_old_results(max_age_hours=0) leaves no entry in
\* processing_results, whatever the entries' timestamps are.
C26_CleanAll ==
    [][(cleanup_old_results_remove /\ assessor.cleaner.max_age_hours = 0) =>
            assessor'.processing_results = EmptyDict]_vars

\* The threads inside a block that reads or writes processing_results.
InsideAccess ==
    {Thread("handler", m) : m \in {x \in MessageIds : assessor.handler[x] = "locked"}}
    \cup {Thread("worker", m) : m \in {x \in MessageIds : assessor.worker[x].pc = "locked"}}
    \cup (IF assessor.poller.pc = "locked" THEN {Thread("poller", "")} ELSE {})
    \cup (IF assessor.cleaner.pc = "locked" THEN {Thread("cleaner", "")} ELSE {})

\* C27: a thread that reads or writes processing_results holds
\* processing_lock, so at most one thread is inside an access at a time, and
\* the table changes only in a step of the thread that holds the lock.
C27_AccessUnderLock ==
    /\ [](InsideAccess \subseteq {assessor.processing_lock})
    /\ [][assessor'.processing_results # assessor.processing_results =>
            /\ assessor.processing_lock # NoThread
            /\ InsideAccess = {assessor.processing_lock}
            /\ assessor'.processing_lock = NoThread]_vars

C27_Witness ==
    /\ assessor.processing_lock = Thread("cleaner", "")
    /\ assessor.processing_results # EmptyDict
    /\ \E m \in MessageIds : assessor.worker[m].pc = "categorized"
    /\ \E m \in MessageIds : assessor.handler[m] = "submitted"
    /\ assessor.poller.pc = "idle"

\* The dicts of a listing, one per card in the store.
DictPerAgent == PyList({PyDict(agents[u]) : u \in DOMAIN agents})

\* C28: from_network_get_agents never raises; it returns the empty list when
\* the registry is unreachable or answers with an error status or a body that
\* is not JSON, and otherwise one dict per agent the registry lists.
C28_EmptyListOrListing ==
    [][\A fault \in NetworkFaults :
          from_network_get_agents(fault) =>
            LET result == client'.returned.result
                failed == \/ fault # "none"
                          \/ phase # "serving"
                          \/ client.registry_url = ""
            IN  /\ result.raised = ""
                /\ failed => result.value = PyList({})
                /\ ~failed => result.value = DictPerAgent]_vars

C28_Witness ==
    /\ client.returned.op = "from_network_get_agents"
    /\ client.returned.fault = "error status"
    /\ client.returned.result = Returned(PyList({}))
    /\ client.registry_url # ""
    /\ phase = "serving"
    /\ Cardinality(DOMAIN agents) = 2

\* C31: a sweep cycle only removes entries: during and after the cycle every
\* url in the store was in the store the cycle found, with the same
\* descriptor and the same last_seen.
C31_SweepOnlyRemoves ==
    out.op = "sweep" =>
        /\ DOMAIN agents \subseteq DOMAIN out.before[1]
        /\ DOMAIN last_seen \subseteq DOMAIN out.before[2]
        /\ \A u \in DOMAIN agents : agents[u] = out.before[1][u]
        /\ \A u \in DOMAIN last_seen : last_seen[u] = out.before[2][u]

C31_Witness ==
    /\ out.op = "sweep"
    /\ out.finished
    /\ ~out.error
    /\ agents # EmptyDict
    /\ DOMAIN agents # DOMAIN out.before[1]

\* The urls a failed cycle had marked and not removed that have been silent
\* since: they are in the store the present cycle found, with the last_seen
\* they had when the cycle before it failed.
LeftAndSilent ==
    {u \in DOMAIN out.after.left :
        /\ u \in DOMAIN out.before[2]
        /\ out.before[2][u] = out.after.left[u]}

\* C32: the exception that ends a cycle during removal changes nothing: the
\* urls already unregistered are out of the store and every marked url not
\* yet removed is in it with its last_seen unchanged; and when the next cycle
\* completes without error, each of those urls that stayed silent is evicted.
C32_FailedRemovalIsRetried ==
    /\ [][sweep_raise =>
            /\ store' = store
            /\ \A u \in sweeper.agents_to_remove :
                  /\ u \in DOMAIN agents'
                  /\ last_seen'[u] = out.before[2][u]
            /\ (DOMAIN out.before[1] \ DOMAIN agents) \cap DOMAIN agents' = {}]_vars
    /\ []((SweepFinishedOk /\ out.after.error) =>
            LeftAndSilent \cap DOMAIN agents = {})

C32_Witness ==
    /\ SweepFinishedOk
    /\ out.after.error
    /\ out.after.removed # {}
    /\ LeftAndSilent # {}
    /\ LeftAndSilent \subseteq EvictedByCycle

\* The log lines of the attempts that failed.
FailedAttempts ==
    {i \in DOMAIN client.log :
        client.log[i] \in {ClientLog("error", "Error during registration attempt"),
                           ClientLog("warning", "Registration verification failed"),
                           ClientLog("warning", "Failed to verify registration")}}

VerificationFound(response) ==
    ~response.raised /\ response.status_code = 200 /\ response.listed

C34_InitLlmClientAlways ==
    (client.module = "agents.basic_agent" /\ client.pc = "done") =>
        client.init_llm_client_calls >= 1

\* The LLM call or the decoding of its reply fails.
LlmCallOrDecodingFails(llm) == llm.raised \/ ~llm.content.decodable

LlmReplyComplete(llm) ==
    /\ ~LlmCallOrDecodingFails(llm)
    /\ {"agent_name", "confidence"} \subseteq DOMAIN llm.content.json.value
    /\ llm.content.json.value.confidence.type = "number"

\* C35: from_network_find_best_agent raises RuntimeError exactly when the
\* registry yields no agents; with an agent listed it does not raise and
\* returns a pair: the name of the first listed agent and 0.5 when the LLM
\* client is missing or the LLM call or the decoding of its reply fails, and
\* the reply's agent_name and confidence when the reply has both.
C35_RoutesOrFallsBack ==
    client.returned.op = "from_network_find_best_agent" =>
        LET listing == client.returned.listing
            llm == client.returned.llm
            result == client.returned.result
        IN  /\ result.raised = "RuntimeError" <=> listing = <<>>
            /\ listing # <<>> =>
                  /\ result.raised = ""
                  /\ Len(result.value) = 2
                  /\ (client.llm_client = "None" \/ LlmCallOrDecodingFails(llm)) =>
                        result.value = <<listing[1].value.name, FALLBACK_CONFIDENCE>>
                  /\ (client.llm_client # "None" /\ LlmReplyComplete(llm)) =>
                        result.value = <<llm.content.json.value.agent_name.value,
                                         llm.content.json.value.confidence.value>>

\* The LLM call raised and the answer is the first of two listed agents.
C35_Witness ==
    /\ client.returned.op = "from_network_find_best_agent"
    /\ client.llm_client # "None"
    /\ client.returned.llm.raised
    /\ Len(client.returned.listing) = 2
    /\ client.returned.result =
          Returned(<<client.returned.listing[1].value.name, FALLBACK_CONFIDENCE>>)
    /\ client.returned.listing[1].value.name # client.returned.listing[2].value.name

ListingUrls(listing) == {listing[i].value.url : i \in DOMAIN listing}

LlmNamesAgent(llm) ==
    /\ ~LlmCallOrDecodingFails(llm)
    /\ "agent_name" \in DOMAIN llm.content.json.value

OlderThanMaxAge ==
    {m \in DOMAIN assessor.processing_results :
        assessor.cleaner.current_time - assessor.processing_results[m].timestamp
            > assessor.cleaner.max_age_hours * SECONDS_PER_HOUR}

AfterHandle ==
    {i \in DOMAIN listener.events : Scheduled(listener.events[i])}

BeforeHandle ==
    {i \in DOMAIN listener.events :
        /\ listener.events[i].reason = "RecognizedSpeech"
        /\ listener.events[i].loop = "None"}

\* The segments of the callbacks of one kind in the ready queue, in order.
ReadySegments(kind) ==
    LET callbacks == SelectSeq(listener.ready, LAMBDA c : c.kind = kind)
    IN  [i \in 1..Len(callbacks) |-> callbacks[i].segment]

\* The segments on their way to main(), oldest first: those main() has taken,
\* those in results_q, those whose task is about to put and those whose task
\* is about to be created.
OnTheWay ==
    listener.delivered \o listener.results_q \o
    ReadySegments("put") \o ReadySegments("create_task")

\* C38: the segments recognized after the loop handle is set reach main()
\* once each and in recognition order, and each of them does reach it; the
\* segments recognized before are never on the way; main() takes a segment
\* only when the send of the one before has ended, with a response or an
\* exception, and goes on after an exception.
C38_DeliveredOnceInOrder ==
    /\ [](/\ \A i, j \in DOMAIN OnTheWay : i < j => OnTheWay[i] < OnTheWay[j]
          /\ {OnTheWay[i] : i \in DOMAIN OnTheWay} = AfterHandle
          /\ Len(listener.delivered) =
                Len(listener.outcomes) +
                (IF listener.main \in {"send", "sent"} THEN 1 ELSE 0)
          /\ listener.main \in {"send", "sent"} =>
                listener.text = listener.delivered[Len(listener.delivered)])
    /\ \A segment \in 1..MaxSegments :
          (segment \in AfterHandle) ~>
              (\E i \in DOMAIN listener.delivered : listener.delivered[i] = segment)
    /\ \A n \in 1..MaxSegments :
          (Len(listener.delivered) = n) ~> (Len(listener.outcomes) = n)

\* A segment recognized before the handle was set was dropped, the send of
\* the first segment delivered ended with an exception, and main() has taken
\* the segment after it.
C38_Witness ==
    /\ BeforeHandle # {}
    /\ Len(listener.outcomes) >= 1
    /\ listener.outcomes[1] = "exception"
    /\ Len(listener.delivered) = 2
    /\ listener.main = "send"

====
